---------------------------- MODULE Spec2Model ----------------------------
(***************************************************************************)
(* Model of the journaling-streak engine of src/lib/utils/streaks.ts and   *)
(* of createJournalEntry of src/lib/sanity/journal.ts.                     *)
(*                                                                         *)
(* Time is counted in hours since 1970-01-01T00:00Z (the code counts       *)
(* milliseconds; every instant that occurs here is a whole hour).  A date  *)
(* string "YYYY-MM-DD" is the tuple <<y, m, d>>, an ISO timestamp          *)
(* "YYYY-MM-DDThh:00:00.000Z" is the tuple <<y, m, d, h>>.  JavaScript's   *)
(* null is the empty tuple.                                                *)
(***************************************************************************)
EXTENDS Integers, Sequences, FiniteSets, TLC

VARIABLES zone, now, entries, call

vars == <<zone, now, entries, call>>

(***************************************************************************)
(* Bounds of the model.                                                    *)
(***************************************************************************)
MaxEntries == 4
WindowDays == 6
MaxStreak == 1250
MaxShift == 3
DateSpan == 3
HelperEntries == 4
HelperDays == 4
MsgStreak == 12
MsgDays == 3
\* createJournalEntry: images of one entry, documents in the store.
MaxImages == 2
MaxDocs == 2

(***************************************************************************)
(* The Date object: ECMAScript's day and time arithmetic.                  *)
(***************************************************************************)
HoursPerDay == 24

Null == <<>>

Day(t) == t \div HoursPerDay

TimeWithinDay(t) == t % HoursPerDay

\* Day number (days since 1970-01-01) of the civil date y-m-d, m in 1..12.
DaysFromCivil(y, m, d) ==
  LET yy  == IF m <= 2 THEN y - 1 ELSE y
      era == yy \div 400
      yoe == yy - era * 400
      mp  == IF m > 2 THEN m - 3 ELSE m + 9
      doy == (153 * mp + 2) \div 5 + d - 1
      doe == yoe * 365 + yoe \div 4 - yoe \div 100 + doy
  IN  era * 146097 + doe - 719468

\* The civil date <<y, m, d>> of a day number.
CivilFromDays(z) ==
  LET zz  == z + 719468
      era == zz \div 146097
      doe == zz - era * 146097
      yoe == (doe - doe \div 1460 + doe \div 36524 - doe \div 146096) \div 365
      doy == doe - (365 * yoe + yoe \div 4 - yoe \div 100)
      mp  == (5 * doy + 2) \div 153
      d   == doy - (153 * mp + 2) \div 5 + 1
      m   == IF mp < 10 THEN mp + 3 ELSE mp - 9
      y   == yoe + era * 400
  IN  <<IF m <= 2 THEN y + 1 ELSE y, m, d>>

YearFromTime(t) == CivilFromDays(Day(t))[1]

\* 0-based, as Date.prototype.getMonth.
MonthFromTime(t) == CivilFromDays(Day(t))[2] - 1

DateFromTime(t) == CivilFromDays(Day(t))[3]

\* ECMAScript MakeDay: month is 0-based and may lie outside 0..11, date may lie
\* outside the month.
MakeDay(year, month, date) ==
  LET ym == year + (month \div 12)
      mn == month % 12
  IN  DaysFromCivil(ym, mn + 1, 1) + date - 1

MakeDate(day, time) == day * HoursPerDay + time

\* new Date("YYYY-MM-DD"): a date-only string is read as UTC midnight.
ParseDate(s) == MakeDate(DaysFromCivil(s[1], s[2], s[3]), 0)

\* new Date("YYYY-MM-DDThh:00:00.000Z").
ParseTimestamp(s) == MakeDate(DaysFromCivil(s[1], s[2], s[3]), s[4])

\* Date.prototype.toISOString.
toISOString(t) == CivilFromDays(Day(t)) \o <<TimeWithinDay(t)>>

(***************************************************************************)
(* The device's time zone, which getDate and setDate read.  std is the     *)
(* standard offset in hours; dst is <<>> or <<start, end>>, the UTC        *)
(* instants between which the offset is std + 1.                           *)
(***************************************************************************)
UTCZone == [name |-> "UTC", std |-> 0, dst |-> <<>>]

TokyoZone == [name |-> "Asia/Tokyo", std |-> 9, dst |-> <<>>]

NewYorkZone ==
  [name |-> "America/New_York", std |-> -5,
   dst |-> <<MakeDate(DaysFromCivil(2025, 3, 9), 7),
             MakeDate(DaysFromCivil(2025, 11, 2), 6)>>]

BerlinZone ==
  [name |-> "Europe/Berlin", std |-> 1,
   dst |-> <<MakeDate(DaysFromCivil(2025, 3, 30), 1),
             MakeDate(DaysFromCivil(2025, 10, 26), 1)>>]

Zones == {UTCZone, TokyoZone, NewYorkZone, BerlinZone}

\* ECMAScript LocalTZA(t, isUTC): the offset at UTC instant t (isUTC), or at
\* local time t; a repeated or skipped local time takes the offset before the
\* transition.
LocalTZA(tz, t, isUTC) ==
  IF tz.dst = <<>> THEN tz.std
  ELSE IF isUTC
       THEN IF t >= tz.dst[1] /\ t < tz.dst[2] THEN tz.std + 1 ELSE tz.std
       ELSE IF t >= tz.dst[1] + tz.std + 1 /\ t < tz.dst[2] + tz.std + 1
            THEN tz.std + 1 ELSE tz.std

LocalTime(tz, t) == t + LocalTZA(tz, t, TRUE)

UTC(tz, t) == t - LocalTZA(tz, t, FALSE)

getDate(tz, t) == DateFromTime(LocalTime(tz, t))

setDate(tz, t, dt) ==
  LET lt == LocalTime(tz, t)
  IN  UTC(tz, MakeDate(MakeDay(YearFromTime(lt), MonthFromTime(lt), dt),
                       TimeWithinDay(lt)))

(***************************************************************************)
(* streaks.ts                                                              *)
(***************************************************************************)
\* toDateString of a Date: toISOString().split("T")[0].
toDateString(t) == SubSeq(toISOString(t), 1, 3)

\* a.localeCompare(b) on "YYYY-MM-DD" strings: zero-padded digits compare
\* character by character, that is field by field.
localeCompare(a, b) ==
  IF a[1] # b[1] THEN (IF a[1] < b[1] THEN -1 ELSE 1)
  ELSE IF a[2] # b[2] THEN (IF a[2] < b[2] THEN -1 ELSE 1)
  ELSE IF a[3] # b[3] THEN (IF a[3] < b[3] THEN -1 ELSE 1)
  ELSE 0

includes(seq, x) == \E i \in 1..Len(seq) : seq[i] = x

\* [...new Set(seq)]: the first occurrence of each value, in insertion order.
RECURSIVE SetSpread(_)
SetSpread(seq) ==
  IF seq = <<>> THEN <<>>
  ELSE LET front == SetSpread(SubSeq(seq, 1, Len(seq) - 1))
           x == seq[Len(seq)]
       IN  IF includes(front, x) THEN front ELSE Append(front, x)

\* Array.prototype.sort((a, b) => b.localeCompare(a)), a stable sort, as an
\* insertion sort: x goes before the first element the comparator puts after it.
RECURSIVE sortInsert(_, _)
sortInsert(sorted, x) ==
  IF sorted = <<>> THEN <<x>>
  ELSE IF localeCompare(x, sorted[1]) > 0 THEN <<x>> \o sorted
       ELSE <<sorted[1]>> \o sortInsert(Tail(sorted), x)

RECURSIVE sortDesc(_)
sortDesc(seq) ==
  IF seq = <<>> THEN <<>>
  ELSE sortInsert(sortDesc(SubSeq(seq, 1, Len(seq) - 1)), seq[Len(seq)])

entryDate(entry) == toDateString(ParseTimestamp(entry.createdAt))

\* getUniqueDates without the Set: the mapped days are sorted but not deduplicated.
getUniqueDates_NoSet(es) ==
  sortDesc([i \in 1..Len(es) |-> entryDate(es[i])])

getUniqueDates(es) ==
  sortDesc(SetSpread([i \in 1..Len(es) |-> entryDate(es[i])]))

\* Entries sorted newest first by createdAt, as entries.sort(...) would leave them.
RECURSIVE entryInsert(_, _)
entryInsert(sorted, x) ==
  IF sorted = <<>> THEN <<x>>
  ELSE IF ParseTimestamp(x.createdAt) > ParseTimestamp(sorted[1].createdAt)
       THEN <<x>> \o sorted
       ELSE <<sorted[1]>> \o entryInsert(Tail(sorted), x)

RECURSIVE entrySort(_)
entrySort(es) ==
  IF es = <<>> THEN <<>>
  ELSE entryInsert(entrySort(SubSeq(es, 1, Len(es) - 1)), es[Len(es)])

\* getUniqueDates sorting the entries themselves before mapping them: the
\* caller's array is reordered.
getUniqueDatesArrays_SortInPlace(es) ==
  [arg |-> entrySort(es), ret |-> getUniqueDates(es)]

\* The arrays of getUniqueDates when it returns: entries.map builds a new
\* array, the spread of the Set builds another, and sort reorders that last
\* one in place and returns it.  arg is the caller's array.
getUniqueDatesArrays(es) ==
  LET a0 == [arg |-> es]
      a1 == [arg |-> a0.arg,
             mapped |-> [i \in 1..Len(a0.arg) |-> entryDate(a0.arg[i])]]
      a2 == [arg |-> a1.arg, mapped |-> a1.mapped,
             spread |-> SetSpread(a1.mapped)]
      a3 == [a2 EXCEPT !.spread = sortDesc(@)]
  IN  [arg |-> a3.arg, ret |-> a3.spread]

addDays(tz, date, days) ==
  LET newDate == ParseDate(date)
  IN  toDateString(setDate(tz, newDate, getDate(tz, newDate) + days))

daysBetween(date1, date2) ==
  (ParseDate(date1) - ParseDate(date2)) \div HoursPerDay

Reverse(seq) == [i \in 1..Len(seq) |-> seq[Len(seq) + 1 - i]]

\* Array.prototype.findIndex, 0-based, -1 when no element satisfies the test.
FirstAbsent(candidates, entryDates) ==
  LET absent == {i \in 1..Len(candidates) : ~includes(entryDates, candidates[i])}
  IN  IF absent = {} THEN -1
      ELSE (CHOOSE i \in absent : \A j \in absent : i <= j) - 1

\* calculateCurrentStreak always walking back from yesterday, whether today
\* has an entry or not.
calculateCurrentStreak_FromYesterday(tz, t, entryDates) ==
  LET today == toDateString(t)
      startDate == addDays(tz, today, -1)
      consecutiveDates ==
        [i \in 1..Len(entryDates) |-> addDays(tz, startDate, -(i - 1))]
      streakDates ==
        SelectSeq(consecutiveDates, LAMBDA date : includes(entryDates, date))
      streakEndIndex == FirstAbsent(consecutiveDates, entryDates)
      streak == IF streakEndIndex = -1 THEN Len(streakDates) ELSE streakEndIndex
  IN  [streak |-> streak, dates |-> Reverse(SubSeq(streakDates, 1, streak))]

calculateCurrentStreak(tz, t, entryDates) ==
  LET today == toDateString(t)
      yesterday == addDays(tz, today, -1)
      hasEntryToday == includes(entryDates, today)
      startDate == IF hasEntryToday THEN today ELSE yesterday
      consecutiveDates ==
        [i \in 1..Len(entryDates) |-> addDays(tz, startDate, -(i - 1))]
      streakDates ==
        SelectSeq(consecutiveDates, LAMBDA date : includes(entryDates, date))
      streakEndIndex == FirstAbsent(consecutiveDates, entryDates)
      streak == IF streakEndIndex = -1 THEN Len(streakDates) ELSE streakEndIndex
  IN  [streak |-> streak, dates |-> Reverse(SubSeq(streakDates, 1, streak))]

\* The reduce of findLongestStreak over the pairs from index i on; acc is the
\* array of run lengths.
RECURSIVE reduceStreaks(_, _, _)
reduceStreaks(entryDates, i, acc) ==
  IF i > Len(entryDates) THEN acc
  ELSE LET isConsecutive == daysBetween(entryDates[i - 1], entryDates[i]) = 1
           last == acc[Len(acc)]
       IN  reduceStreaks(entryDates, i + 1,
             IF isConsecutive
             THEN [acc EXCEPT ![Len(acc)] = (IF last = 0 THEN 1 ELSE last) + 1]
             ELSE Append(acc, 1))

SeqMax(seq) == CHOOSE m \in {seq[i] : i \in 1..Len(seq)} :
                 \A i \in 1..Len(seq) : seq[i] <= m

\* findLongestStreak returning the last run (the oldest) instead of the maximum.
findLongestStreak_LastRun(entryDates) ==
  IF Len(entryDates) = 0 THEN 0
  ELSE LET streaks == reduceStreaks(entryDates, 2, <<1>>)
       IN  streaks[Len(streaks)]

findLongestStreak(entryDates) ==
  IF Len(entryDates) = 0 THEN 0
  ELSE SeqMax(reduceStreaks(entryDates, 2, <<1>>))

\* calculateStreaks with neither test for no entries: Math.max of the reduce's
\* initial [1] reports a longest streak of 1.
calculateStreaks_NoEmptyGuard(tz, t, es) ==
  LET entryDates == getUniqueDates(es)
      cur == calculateCurrentStreak(tz, t, entryDates)
  IN  [currentStreak |-> cur.streak,
       longestStreak |-> SeqMax(reduceStreaks(entryDates, 2, <<1>>)),
       lastEntryDate |-> IF Len(entryDates) > 0 THEN entryDates[1] ELSE Null,
       streakDates |-> cur.dates]

\* calculateStreaks taking the first entry of the input as the last entry.
calculateStreaks_FirstGiven(tz, t, es) ==
  IF Len(es) = 0
  THEN [currentStreak |-> 0, longestStreak |-> 0,
        lastEntryDate |-> Null, streakDates |-> <<>>]
  ELSE LET entryDates == getUniqueDates(es)
           cur == calculateCurrentStreak(tz, t, entryDates)
       IN  [currentStreak |-> cur.streak,
            longestStreak |-> findLongestStreak(entryDates),
            lastEntryDate |-> entryDate(es[1]),
            streakDates |-> cur.dates]

calculateStreaks(tz, t, es) ==
  IF Len(es) = 0
  THEN [currentStreak |-> 0, longestStreak |-> 0,
        lastEntryDate |-> Null, streakDates |-> <<>>]
  ELSE LET entryDates == getUniqueDates(es)
           cur == calculateCurrentStreak(tz, t, entryDates)
       IN  [currentStreak |-> cur.streak,
            longestStreak |-> findLongestStreak(entryDates),
            lastEntryDate |-> IF Len(entryDates) > 0 THEN entryDates[1] ELSE Null,
            streakDates |-> cur.dates]

\* The caller's array when calculateStreaks returns.
entriesAfterCalculateStreaks(es) ==
  IF Len(es) = 0 THEN es ELSE getUniqueDatesArrays(es).arg

\* isStreakActive looking at today only, without the grace day.
isStreakActive_TodayOnly(tz, t, es) ==
  IF Len(es) = 0 THEN FALSE
  ELSE LET today == toDateString(t)
           entryDates == [i \in 1..Len(es) |-> entryDate(es[i])]
       IN  includes(entryDates, today)

isStreakActive(tz, t, es) ==
  IF Len(es) = 0 THEN FALSE
  ELSE LET today == toDateString(t)
           yesterday == addDays(tz, today, -1)
           entryDates == [i \in 1..Len(es) |-> entryDate(es[i])]
       IN  includes(entryDates, today) \/ includes(entryDates, yesterday)

\* The caller's array when isStreakActive returns: entries.map builds the
\* array of dates, and includes only reads it.
entriesAfterIsStreakActive(es) ==
  IF Len(es) = 0 THEN es
  ELSE LET a1 == [arg |-> es,
                  mapped |-> [i \in 1..Len(es) |-> entryDate(es[i])]]
       IN  a1.arg

milestones == <<5, 10, 25, 50, 100, 200, 365, 500, 1000>>

\* Math.ceil(x / 100) for an integer x.
CeilDiv100(x) == -((-x) \div 100)

\* getDaysUntilNextMilestone with currentStreak <= milestone as the test.
getDaysUntilNextMilestone_NonStrict(currentStreak) ==
  LET found == {i \in 1..Len(milestones) : currentStreak <= milestones[i]}
      nextMilestone ==
        IF found # {}
        THEN milestones[CHOOSE i \in found : \A j \in found : i <= j]
        ELSE CeilDiv100(currentStreak) * 100
  IN  [daysUntil |-> nextMilestone - currentStreak, milestone |-> nextMilestone]

getDaysUntilNextMilestone(currentStreak) ==
  LET found == {i \in 1..Len(milestones) : currentStreak < milestones[i]}
      nextMilestone ==
        IF found # {}
        THEN milestones[CHOOSE i \in found : \A j \in found : i <= j]
        ELSE CeilDiv100(currentStreak) * 100
  IN  [daysUntil |-> nextMilestone - currentStreak, milestone |-> nextMilestone]

\* Number.prototype.toString of a non-negative integer: the property key that
\* messages[currentStreak] looks up, and the text a template substitutes.
Digits == <<"0", "1", "2", "3", "4", "5", "6", "7", "8", "9">>

RECURSIVE numberToString(_)
numberToString(n) ==
  IF n < 10 THEN Digits[n + 1]
  ELSE numberToString(n \div 10) \o Digits[(n % 10) + 1]

\* The messages object for a streak and hasEntryToday; its keys are "1" and
\* "default".  The emoji that end the strings are written as [sparkles],
\* [fire] and [muscle].
messages(currentStreak, hasEntryToday) ==
  [key \in {"1", "default"} |->
     IF key = "1"
     THEN IF hasEntryToday
          THEN "Great start! Keep it going tomorrow! [fire]"
          ELSE "1 day streak - write today to continue! [muscle]"
     ELSE IF hasEntryToday
          THEN "Amazing! " \o numberToString(currentStreak) \o " day streak! [fire]"
          ELSE numberToString(currentStreak)
                 \o " day streak - write today to continue! [fire]"]

\* getStreakStatusMessage choosing the template by lastEntryDate !== today.
getStreakStatusMessage_Negated(t, data) ==
  IF data.currentStreak = 0
  THEN "Start your journaling streak today! [sparkles]"
  ELSE LET hasEntryToday == data.lastEntryDate # toDateString(t)
           msgs == messages(data.currentStreak, hasEntryToday)
           key == numberToString(data.currentStreak)
       IN  IF key \in DOMAIN msgs THEN msgs[key] ELSE msgs["default"]

getStreakStatusMessage(t, data) ==
  IF data.currentStreak = 0
  THEN "Start your journaling streak today! [sparkles]"
  ELSE LET hasEntryToday == data.lastEntryDate = toDateString(t)
           msgs == messages(data.currentStreak, hasEntryToday)
           key == numberToString(data.currentStreak)
       IN  IF key \in DOMAIN msgs THEN msgs[key] ELSE msgs["default"]

(***************************************************************************)
(* The journal: the device clock advances, entries are created at the      *)
(* current instant (createdAt is new Date().toISOString()), and the streak *)
(* functions are called on the entries fetched so far.  call holds the     *)
(* call made on the current entries and clock, with what it returned,      *)
(* until the clock advances or an entry is added.                          *)
(***************************************************************************)
NoCall == [fn |-> "none"]

\* The first instant of the observed window: the week of the zone's change
\* from daylight saving time to standard time in 2025, which holds the change
\* of month for New York.
WindowStart(tz) ==
  IF tz.name = "Europe/Berlin"
  THEN MakeDate(DaysFromCivil(2025, 10, 22), 8)
  ELSE MakeDate(DaysFromCivil(2025, 10, 29), 8)

WindowEnd(tz) == WindowStart(tz) + WindowDays * HoursPerDay

Init ==
  /\ zone \in Zones
  /\ now = WindowStart(zone)
  /\ entries = <<>>
  /\ call = NoCall

Tick ==
  /\ now + HoursPerDay < WindowEnd(zone)
  /\ now' = now + HoursPerDay
  /\ call' = NoCall
  /\ UNCHANGED <<zone, entries>>

NewEntry == [id |-> Len(entries) + 1, createdAt |-> toISOString(now)]

\* The fetched list is not assumed ordered: the new entry is put first or last.
AddEntry ==
  /\ Len(entries) < MaxEntries
  /\ entries' \in {<<NewEntry>> \o entries, Append(entries, NewEntry)}
  /\ call' = NoCall
  /\ UNCHANGED <<zone, now>>

CalculateStreaks ==
  /\ call = NoCall
  /\ call' = [fn |-> "calculateStreaks",
              ret |-> calculateStreaks(zone, now, entries)]
  /\ entries' = entriesAfterCalculateStreaks(entries)
  /\ UNCHANGED <<zone, now>>

IsStreakActive ==
  /\ call = NoCall
  /\ call' = [fn |-> "isStreakActive",
              ret |-> isStreakActive(zone, now, entries)]
  /\ entries' = entriesAfterIsStreakActive(entries)
  /\ UNCHANGED <<zone, now>>

CalculateCurrentStreak ==
  /\ call = NoCall
  /\ call' = [fn |-> "calculateCurrentStreak",
              ret |-> calculateCurrentStreak(zone, now, getUniqueDates(entries))]
  /\ UNCHANGED <<zone, now, entries>>

Next ==
  \/ Tick
  \/ AddEntry
  \/ CalculateStreaks
  \/ IsStreakActive
  \/ CalculateCurrentStreak

Spec == Init /\ [][Next]_vars

(***************************************************************************)
(* The helpers on entry lists, applied to every list of at most            *)
(* HelperEntries entries, in any order, created at 08:00 or 22:00 of       *)
(* HelperDays days from 2025-02-27 on.                                     *)
(***************************************************************************)
HelperStamps ==
  {toISOString(MakeDate(DaysFromCivil(2025, 2, 27) + d, h)) :
     d \in 0..(HelperDays - 1), h \in {8, 22}}

HelperLists ==
  UNION {[1..n -> HelperStamps] : n \in 0..HelperEntries}

InitHelpers ==
  /\ zone = UTCZone
  /\ now = MakeDate(DaysFromCivil(2025, 2, 27) + HelperDays, 8)
  /\ \E stamps \in HelperLists :
       entries = [i \in 1..Len(stamps) |-> [id |-> i, createdAt |-> stamps[i]]]
  /\ call = NoCall

GetUniqueDates ==
  /\ call = NoCall
  /\ call' = [fn |-> "getUniqueDates", ret |-> getUniqueDates(entries)]
  /\ entries' = getUniqueDatesArrays(entries).arg
  /\ UNCHANGED <<zone, now>>

FindLongestStreak ==
  /\ call = NoCall
  /\ call' = [fn |-> "findLongestStreak",
              ret |-> findLongestStreak(getUniqueDates(entries))]
  /\ UNCHANGED <<zone, now, entries>>

NextHelpers == GetUniqueDates \/ FindLongestStreak \/ CalculateStreaks

SpecHelpers == InitHelpers /\ [][NextHelpers]_vars

(***************************************************************************)
(* The day arithmetic, applied in every zone to the days around the ends   *)
(* of the year and of February and around the four clock changes of 2025.  *)
(***************************************************************************)
DateAnchors ==
  {DaysFromCivil(2024, 12, 30), DaysFromCivil(2025, 2, 27),
   DaysFromCivil(2025, 3, 8), DaysFromCivil(2025, 3, 29),
   DaysFromCivil(2025, 10, 25), DaysFromCivil(2025, 11, 1)}

TestDates == {CivilFromDays(a + i) : a \in DateAnchors, i \in 0..DateSpan}

InitDates ==
  /\ zone \in Zones
  /\ now = WindowStart(zone)
  /\ entries = <<>>
  /\ call = NoCall

AddDays ==
  \E date \in TestDates, days \in (-MaxShift)..MaxShift :
    /\ call = NoCall
    /\ call' = [fn |-> "addDays", date |-> date, days |-> days,
                ret |-> addDays(zone, date, days)]
    /\ UNCHANGED <<zone, now, entries>>

DaysBetween ==
  \E date1 \in TestDates, date2 \in TestDates :
    /\ call = NoCall
    /\ call' = [fn |-> "daysBetween", date1 |-> date1, date2 |-> date2,
                ret |-> daysBetween(date1, date2)]
    /\ UNCHANGED <<zone, now, entries>>

NextDates == AddDays \/ DaysBetween

SpecDates == InitDates /\ [][NextDates]_vars

(***************************************************************************)
(* The milestone projection, applied to every streak up to MaxStreak.      *)
(***************************************************************************)
InitMilestone ==
  /\ zone = UTCZone
  /\ now = WindowStart(zone)
  /\ entries = <<>>
  /\ call = NoCall

GetDaysUntilNextMilestone ==
  \E currentStreak \in 0..MaxStreak :
    /\ call = NoCall
    /\ call' = [fn |-> "getDaysUntilNextMilestone",
                currentStreak |-> currentStreak,
                ret |-> getDaysUntilNextMilestone(currentStreak)]
    /\ UNCHANGED <<zone, now, entries>>

NextMilestone == GetDaysUntilNextMilestone

SpecMilestone == InitMilestone /\ [][NextMilestone]_vars

(***************************************************************************)
(* The status message, applied on each of MsgDays days to every streak up  *)
(* to MsgStreak and every last entry date: none, or a day from two days    *)
(* before the first of those days to the last of them.                     *)
(***************************************************************************)
MessageDates ==
  {Null} \cup {CivilFromDays(Day(WindowStart(UTCZone)) + d) :
                 d \in (-2)..(MsgDays - 1)}

InitMessage ==
  /\ zone = UTCZone
  /\ now \in {WindowStart(UTCZone) + d * HoursPerDay : d \in 0..(MsgDays - 1)}
  /\ entries = <<>>
  /\ call = NoCall

GetStreakStatusMessage ==
  \E currentStreak \in 0..MsgStreak, lastEntryDate \in MessageDates :
    /\ call = NoCall
    /\ call' = [fn |-> "getStreakStatusMessage",
                currentStreak |-> currentStreak,
                lastEntryDate |-> lastEntryDate,
                ret |-> getStreakStatusMessage(now,
                          [currentStreak |-> currentStreak,
                           longestStreak |-> currentStreak,
                           lastEntryDate |-> lastEntryDate,
                           streakDates |-> <<>>])]
    /\ UNCHANGED <<zone, now, entries>>

NextMessage == GetStreakStatusMessage

SpecMessage == InitMessage /\ [][NextMessage]_vars

(***************************************************************************)
(* journal.ts: createJournalEntry.  The call is a process whose position   *)
(* pc is the await it is suspended on ("categorize", "upload", "create")   *)
(* or how it ended ("done", "failed").  A JavaScript value is a record:    *)
(* undefined, a string, or the object categorizeJournalEntry resolves to.  *)
(* entries is the document store.                                          *)
(***************************************************************************)
Undefined == [type |-> "undefined"]
Str(s) == [type |-> "string", value |-> s]

\* ToBoolean on undefined or a string.
Truthy(v) == v.type = "string" /\ v.value # ""

\* What categorizeJournalEntry can resolve to: an object with a category id,
\* with an empty one or with none, or no object at all.
CategorizationResults ==
  {[type |-> "object", categoryId |-> id] :
     id \in {Str("category-1"), Str(""), Undefined}} \cup {Undefined}

\* Step 2's map: uploadImageToSanity has been called for every image.
startUploads(c) == [c EXCEPT !.uploads = [i \in DOMAIN @ |-> "uploading"]]

\* The categorization error leaving createJournalEntry instead of being
\* caught.
categorizationFailed_Rethrown(c) ==
  [c EXCEPT !.categorization = [outcome |-> "failed"],
            !.pc = "failed", !.error = "categorize"]

\* The inner catch: log, keep categoryId undefined, go on to Step 2.
categorizationFailed(c) ==
  startUploads([c EXCEPT !.categorization = [outcome |-> "failed"],
                         !.pc = "upload"])

\* The inner try after the await: reading categoryId of no object throws a
\* TypeError into the inner catch.
categorizationResolved(c, result) ==
  IF result.type = "undefined" THEN categorizationFailed(c)
  ELSE startUploads([c EXCEPT !.categorization =
                                 [outcome |-> "resolved",
                                  categoryId |-> result.categoryId],
                              !.categoryId = result.categoryId,
                              !.pc = "upload"])

\* Step 3: the text block followed by one block per uploaded image.
contentBlocks(c) ==
  <<[_type |-> "block", _key |-> "content-block"]>> \o
  [i \in DOMAIN c.uploads |-> [_type |-> "image", _key |-> i - 1]]

\* Step 4: the document, with the reference spread in when categoryId is
\* truthy.  (The source names the timestamp field cratedAt.)
journalEntry(c, t) ==
  IF Truthy(c.categoryId)
  THEN [_type |-> "journalEntry", content |-> contentBlocks(c),
        cratedAt |-> toISOString(t),
        aiGeneratedCategory |-> [_type |-> "reference",
                                 _ref |-> c.categoryId.value]]
  ELSE [_type |-> "journalEntry", content |-> contentBlocks(c),
        cratedAt |-> toISOString(t)]

Finished == IF call = NoCall THEN TRUE ELSE call.pc \in {"done", "failed"}

InitCreate ==
  /\ zone = UTCZone
  /\ now = WindowStart(UTCZone)
  /\ entries = <<>>
  /\ call = NoCall

\* createJournalEntry is called and suspends on categorizeJournalEntry.
CreateJournalEntry ==
  \E n \in 0..MaxImages :
    /\ Finished
    /\ Len(entries) < MaxDocs
    /\ call' = [fn |-> "createJournalEntry", pc |-> "categorize",
                categorization |-> [outcome |-> "pending"],
                categoryId |-> Undefined,
                uploads |-> [i \in 1..n |-> "pending"],
                journalEntry |-> [_type |-> "none"],
                error |-> "none"]
    /\ UNCHANGED <<zone, now, entries>>

CategorizeResolves ==
  \E result \in CategorizationResults :
    /\ call.fn = "createJournalEntry" /\ call.pc = "categorize"
    /\ call' = categorizationResolved(call, result)
    /\ UNCHANGED <<zone, now, entries>>

CategorizeRejects ==
  /\ call.fn = "createJournalEntry" /\ call.pc = "categorize"
  /\ call' = categorizationFailed(call)
  /\ UNCHANGED <<zone, now, entries>>

\* An upload in flight ends, whether or not the call still waits for it.
UploadResolves ==
  \E i \in 1..MaxImages :
    /\ call.fn = "createJournalEntry"
    /\ i \in DOMAIN call.uploads /\ call.uploads[i] = "uploading"
    /\ call' = [call EXCEPT !.uploads[i] = "uploaded"]
    /\ UNCHANGED <<zone, now, entries>>

\* Promise.all rejects with the first upload that fails; the outer catch
\* rethrows.
UploadRejects ==
  \E i \in 1..MaxImages :
    /\ call.fn = "createJournalEntry"
    /\ i \in DOMAIN call.uploads /\ call.uploads[i] = "uploading"
    /\ call' = IF call.pc = "upload"
               THEN [call EXCEPT !.uploads[i] = "failed",
                                 !.pc = "failed", !.error = "upload"]
               ELSE [call EXCEPT !.uploads[i] = "failed"]
    /\ UNCHANGED <<zone, now, entries>>

\* Promise.all resolves: Steps 3 and 4, and sanityClient.create is called.
BuildJournalEntry ==
  /\ call.fn = "createJournalEntry" /\ call.pc = "upload"
  /\ \A i \in DOMAIN call.uploads : call.uploads[i] = "uploaded"
  /\ call' = [call EXCEPT !.journalEntry = journalEntry(call, now),
                          !.pc = "create"]
  /\ UNCHANGED <<zone, now, entries>>

CreateResolves ==
  /\ call.fn = "createJournalEntry" /\ call.pc = "create"
  /\ entries' = Append(entries, call.journalEntry)
  /\ call' = [call EXCEPT !.pc = "done"]
  /\ UNCHANGED <<zone, now>>

CreateRejects ==
  /\ call.fn = "createJournalEntry" /\ call.pc = "create"
  /\ call' = [call EXCEPT !.pc = "failed", !.error = "create"]
  /\ UNCHANGED <<zone, now, entries>>

NextCreate ==
  \/ CreateJournalEntry
  \/ CategorizeResolves
  \/ CategorizeRejects
  \/ UploadResolves
  \/ UploadRejects
  \/ BuildJournalEntry
  \/ CreateResolves
  \/ CreateRejects

SpecCreate == InitCreate /\ [][NextCreate]_vars

(***************************************************************************)
(* What the properties are stated against: the calendar itself, on day     *)
(* numbers, with no Date object and no time zone.                          *)
(***************************************************************************)
DayNum(date) == DaysFromCivil(date[1], date[2], date[3])

\* The days (as day numbers) that have at least one entry.
EntryDays(es) == {Day(ParseTimestamp(es[i].createdAt)) : i \in 1..Len(es)}

Today == Day(now)

SetMax(S) == CHOOSE m \in S : \A x \in S : x <= m

\* The number of days start, start - 1, start - 2, ... in S before the first
\* one that is not.
RunBack(S, start) ==
  CHOOSE k \in 0..Cardinality(S) :
    /\ \A i \in 0..(k - 1) : (start - i) \in S
    /\ (start - k) \notin S

\* The length of the longest run of consecutive days in S.
LongestRun(S) ==
  IF S = {} THEN 0 ELSE SetMax({RunBack(S, d) : d \in S})

StartDay(S) == IF Today \in S THEN Today ELSE Today - 1

Ascending(dates) ==
  \A i \in 1..(Len(dates) - 1) : DayNum(dates[i + 1]) = DayNum(dates[i]) + 1

FixedOffset == zone.dst = <<>>

(***************************************************************************)
(* C1.  For every entry collection and every today, calculateStreaks       *)
(* returns currentStreak <= longestStreak.                                 *)
(***************************************************************************)
C1_CurrentAtMostLongest ==
  call.fn = "calculateStreaks" =>
    call.ret.currentStreak <= call.ret.longestStreak

\* The same where the device's zone has no clock change.
C1_FixedOffset == FixedOffset => C1_CurrentAtMostLongest

(***************************************************************************)
(* C2.  calculateCurrentStreak returns the number of leading days of the   *)
(* walk start, start - 1, start - 2, ... that have an entry, where start   *)
(* is today if today has an entry and yesterday otherwise.                 *)
(***************************************************************************)
C2_StreakIsRunBack ==
  call.fn = "calculateCurrentStreak" =>
    call.ret.streak = RunBack(EntryDays(entries), StartDay(EntryDays(entries)))

C2_FixedOffset == FixedOffset => C2_StreakIsRunBack

(***************************************************************************)
(* C3.  streakDates has exactly currentStreak elements, ascending, each    *)
(* the calendar day after the previous one.                                *)
(***************************************************************************)
C3_StreakDatesContiguous ==
  call.fn = "calculateStreaks" =>
    /\ Len(call.ret.streakDates) = call.ret.currentStreak
    /\ Ascending(call.ret.streakDates)

C3_FixedOffset == FixedOffset => C3_StreakDatesContiguous

(***************************************************************************)
(* C4.  When neither today nor yesterday has an entry, calculateStreaks    *)
(* returns currentStreak 0 and no streakDates, whatever older entries      *)
(* exist, and longestStreak still reports the longest older run.           *)
(***************************************************************************)
C4_BrokenStreakIsZero ==
  (/\ call.fn = "calculateStreaks"
   /\ Today \notin EntryDays(entries)
   /\ (Today - 1) \notin EntryDays(entries))
  => /\ call.ret.currentStreak = 0
     /\ call.ret.streakDates = <<>>
     /\ call.ret.longestStreak = LongestRun(EntryDays(entries))

C4_FixedOffset == FixedOffset => C4_BrokenStreakIsZero

\* Four consecutive days that end two days before today: 0 and 4.
C4_ScenarioC ==
  /\ call.fn = "calculateStreaks"
  /\ EntryDays(entries) = (Today - 5)..(Today - 2)
  /\ call.ret.currentStreak = 0
  /\ call.ret.longestStreak = 4

(***************************************************************************)
(* C5.  findLongestStreak returns the length of the longest run of         *)
(* consecutive calendar days anywhere in the history: at least 1 for a     *)
(* non-empty history, 0 for the empty one.                                 *)
(***************************************************************************)
C5_LongestIsLongestRun ==
  call.fn = "findLongestStreak" =>
    /\ call.ret = LongestRun(EntryDays(entries))
    /\ (entries # <<>> => call.ret >= 1)
    /\ (entries = <<>> => call.ret = 0)

\* A run of two days that is not the most recent one, found among four entries.
C5_Witness ==
  /\ call.fn = "findLongestStreak"
  /\ Len(entries) = 4
  /\ \E d \in EntryDays(entries) :
       EntryDays(entries) = {d, d + 1, d + 3}
  /\ call.ret = 2

(***************************************************************************)
(* C6.  For every streak >= 0, getDaysUntilNextMilestone returns a         *)
(* milestone strictly greater than the streak and daysUntil = milestone -  *)
(* streak >= 1; from 1000 on the milestone is the next hundred strictly    *)
(* above the streak.                                                       *)
(***************************************************************************)
C6_MilestoneStrictlyAhead ==
  call.fn = "getDaysUntilNextMilestone" =>
    /\ call.ret.milestone > call.currentStreak
    /\ call.ret.daysUntil = call.ret.milestone - call.currentStreak
    /\ call.ret.daysUntil >= 1
    /\ (call.currentStreak >= 1000 =>
          call.ret.milestone = ((call.currentStreak \div 100) + 1) * 100)

(***************************************************************************)
(* C7.  For a streak s with 0 <= s < 1000, the milestone is the first of   *)
(* 5, 10, 25, 50, 100, 200, 365, 500, 1000 strictly greater than s.        *)
(***************************************************************************)
C7_FirstMilestoneAbove ==
  (call.fn = "getDaysUntilNextMilestone" /\ call.currentStreak < 1000) =>
    LET above == {m \in {5, 10, 25, 50, 100, 200, 365, 500, 1000} :
                    m > call.currentStreak}
    IN  /\ call.ret.milestone \in above
        /\ \A m \in above : call.ret.milestone <= m
        /\ call.ret.daysUntil = call.ret.milestone - call.currentStreak

\* A streak of exactly 5 projects to 10, five days away.
C7_Witness ==
  /\ call.fn = "getDaysUntilNextMilestone"
  /\ call.currentStreak = 5
  /\ call.ret = [daysUntil |-> 5, milestone |-> 10]

(***************************************************************************)
(* C8.  isStreakActive is true exactly when the day of the most recent     *)
(* entry is today or yesterday; it is false for no entries.                *)
(***************************************************************************)
C8_ActiveIffRecent ==
  call.fn = "isStreakActive" =>
    (call.ret <=>
       /\ entries # <<>>
       /\ SetMax(EntryDays(entries)) \in {Today, Today - 1})

C8_FixedOffset == FixedOffset => C8_ActiveIffRecent

(***************************************************************************)
(* C9.  addDays(d, n) is the calendar day exactly n days from d, in every  *)
(* time zone, so daysBetween(addDays(d, n), d) = n and                     *)
(* addDays(addDays(d, n), -n) = d.                                         *)
(***************************************************************************)
C9_AddDaysExact ==
  call.fn = "addDays" =>
    /\ call.ret = CivilFromDays(DayNum(call.date) + call.days)
    /\ daysBetween(call.ret, call.date) = call.days
    /\ addDays(zone, call.ret, -call.days) = call.date

C9_FixedOffset == FixedOffset => C9_AddDaysExact

(***************************************************************************)
(* C10.  getUniqueDates returns the days that have an entry, each once,    *)
(* most recent first; no entries give the empty sequence.                  *)
(***************************************************************************)
C10_UniqueDescending ==
  call.fn = "getUniqueDates" =>
    /\ \A i \in 1..(Len(call.ret) - 1) :
         DayNum(call.ret[i]) > DayNum(call.ret[i + 1])
    /\ {DayNum(call.ret[i]) : i \in 1..Len(call.ret)} = EntryDays(entries)
    /\ \A i \in 1..Len(call.ret) : call.ret[i] = CivilFromDays(DayNum(call.ret[i]))
    /\ (entries = <<>> => call.ret = <<>>)

\* Three entries, not given newest first, two of them at different hours of
\* one day, across the end of February: two days come back.
C10_Witness ==
  /\ call.fn = "getUniqueDates"
  /\ Len(entries) = 3
  /\ entries[1].createdAt = <<2025, 2, 28, 8>>
  /\ entries[2].createdAt = <<2025, 3, 1, 22>>
  /\ entries[3].createdAt = <<2025, 2, 28, 22>>
  /\ call.ret = <<<<2025, 3, 1>>, <<2025, 2, 28>>>>


(***************************************************************************)
(* C11.  getStreakStatusMessage depends only on whether currentStreak is   *)
(* 0, whether it is 1, and whether lastEntryDate is today: streak 0 gives  *)
(* the start message; otherwise the logged-today template when             *)
(* lastEntryDate is today and the write-today template when it is not, the *)
(* one-day texts for streak 1 and the texts with the count for more.       *)
(***************************************************************************)
C11_LoggedToday ==
  /\ call.lastEntryDate # Null
  /\ DayNum(call.lastEntryDate) = Today

C11_MessageByCase ==
  call.fn = "getStreakStatusMessage" =>
    call.ret =
      IF call.currentStreak = 0
      THEN "Start your journaling streak today! [sparkles]"
      ELSE IF call.currentStreak = 1
      THEN IF C11_LoggedToday
           THEN "Great start! Keep it going tomorrow! [fire]"
           ELSE "1 day streak - write today to continue! [muscle]"
      ELSE IF C11_LoggedToday
           THEN "Amazing! " \o numberToString(call.currentStreak)
                  \o " day streak! [fire]"
           ELSE numberToString(call.currentStreak)
                  \o " day streak - write today to continue! [fire]"

\* A streak of 11 (whose key "11" is not the key "1") logged today, and the
\* text with the count.
C11_Witness ==
  /\ call.fn = "getStreakStatusMessage"
  /\ call.currentStreak = 11
  /\ C11_LoggedToday
  /\ call.ret = "Amazing! 11 day streak! [fire]"


(***************************************************************************)
(* C12.  For no entries calculateStreaks returns exactly currentStreak 0,  *)
(* longestStreak 0, lastEntryDate null and no streakDates.                 *)
(***************************************************************************)
C12_EmptyGivesDefaults ==
  (call.fn = "calculateStreaks" /\ entries = <<>>) =>
    call.ret = [currentStreak |-> 0, longestStreak |-> 0,
                lastEntryDate |-> Null, streakDates |-> <<>>]

\* calculateStreaks has been called with no entries, on a later day of the window.
C12_Witness ==
  /\ call.fn = "calculateStreaks"
  /\ entries = <<>>
  /\ now > WindowStart(zone)
  /\ call.ret.lastEntryDate = Null

(***************************************************************************)
(* C13.  For entries in any order lastEntryDate is the most recent day     *)
(* that has an entry; it is null exactly when there are no entries.        *)
(***************************************************************************)
C13_LastEntryIsMostRecent ==
  call.fn = "calculateStreaks" =>
    /\ (entries # <<>> =>
          call.ret.lastEntryDate = CivilFromDays(SetMax(EntryDays(entries))))
    /\ (call.ret.lastEntryDate = Null <=> entries = <<>>)

\* The most recent entry is neither the first nor the last of the input.
C13_Witness ==
  /\ call.fn = "calculateStreaks"
  /\ Len(entries) = 3
  /\ entries[1].createdAt = <<2025, 2, 28, 22>>
  /\ entries[2].createdAt = <<2025, 3, 2, 8>>
  /\ entries[3].createdAt = <<2025, 2, 27, 8>>
  /\ call.ret.lastEntryDate = <<2025, 3, 2>>


(***************************************************************************)
(* C14.  calculateStreaks and isStreakActive leave the caller's entries    *)
(* as they were: the same elements in the same order.                      *)
(***************************************************************************)
C14_EntriesUntouched ==
  [][call'.fn \in {"calculateStreaks", "isStreakActive"} => entries' = entries]_vars

\* calculateStreaks has returned on entries given oldest first, which a sort
\* of the caller's array would have reordered.
C14_Witness ==
  /\ call.fn = "calculateStreaks"
  /\ Len(entries) >= 2
  /\ entries[1].id = 1
  /\ ParseTimestamp(entries[1].createdAt) < ParseTimestamp(entries[2].createdAt)


(***************************************************************************)
(* C15.  When today advances by one day and no entry is added,             *)
(* currentStreak stays the same if the last entry was on the old today,    *)
(* drops to 0 if it was on the old yesterday, and never changes to a       *)
(* different positive value.                                               *)
(***************************************************************************)
C15_DayAdvance ==
  LET before == calculateStreaks(zone, now, entries).currentStreak
      after  == calculateStreaks(zone, now', entries).currentStreak
      last   == SetMax(EntryDays(entries))
  IN  /\ after \in {before, 0}
      /\ (entries # <<>> /\ last = Today) => after = before
      /\ (entries # <<>> /\ last = Today - 1) => after = 0

C15_GraceDay ==
  [][(now' = now + HoursPerDay /\ entries' = entries) => C15_DayAdvance]_vars

\* The same where the device's zone has no clock change.
C15_FixedOffset ==
  [][(FixedOffset /\ now' = now + HoursPerDay /\ entries' = entries)
       => C15_DayAdvance]_vars


(***************************************************************************)
(* C16.  For every entry collection and the same today, isStreakActive is  *)
(* true if and only if calculateStreaks gives currentStreak > 0.           *)
(***************************************************************************)
C16_ActiveIffStreak ==
  call.fn = "isStreakActive" =>
    (call.ret <=> calculateStreaks(zone, now, entries).currentStreak > 0)

\* isStreakActive has returned true on the grace day: the last entry is on
\* yesterday, none today.
C16_Witness ==
  /\ call.fn = "isStreakActive"
  /\ call.ret
  /\ Today \notin EntryDays(entries)
  /\ (Today - 1) \in EntryDays(entries)
  /\ calculateStreaks(zone, now, entries).currentStreak > 0

\* isStreakActive has returned false on a collection that has entries.
C16_WitnessInactive ==
  /\ call.fn = "isStreakActive"
  /\ ~call.ret
  /\ entries # <<>>


(***************************************************************************)
(* C17.  For a fixed today, adding an entry dated today raises             *)
(* currentStreak by exactly 1 when today had no entry before, and leaves   *)
(* currentStreak, longestStreak, lastEntryDate and streakDates unchanged   *)
(* when today already had an entry.                                        *)
(***************************************************************************)
C17_EntryAdded ==
  LET before == calculateStreaks(zone, now, entries)
      after  == calculateStreaks(zone, now, entries')
  IN  IF Today \in EntryDays(entries)
      THEN /\ after.currentStreak = before.currentStreak
           /\ after.longestStreak = before.longestStreak
           /\ after.lastEntryDate = before.lastEntryDate
           /\ after.streakDates = before.streakDates
      ELSE after.currentStreak = before.currentStreak + 1

C17_AddEntryToday ==
  [][(now' = now /\ Len(entries') = Len(entries) + 1) => C17_EntryAdded]_vars

\* The same where the device's zone has no clock change.
C17_FixedOffset ==
  [][(FixedOffset /\ now' = now /\ Len(entries') = Len(entries) + 1)
       => C17_EntryAdded]_vars


\* Today's first entry has been added after an entry of yesterday, where the
\* device's clock changed between the two days.
C17_Witness ==
  /\ ~FixedOffset
  /\ Cardinality({i \in 1..Len(entries) :
                    Day(ParseTimestamp(entries[i].createdAt)) = Today}) = 1
  /\ (Today - 1) \in EntryDays(entries)
  /\ addDays(zone, toDateString(now), -1) # CivilFromDays(Today - 1)
  /\ call = NoCall

\* A second entry has been added today, after an entry of yesterday.
C17_WitnessSecond ==
  /\ Cardinality({i \in 1..Len(entries) :
                    Day(ParseTimestamp(entries[i].createdAt)) = Today}) = 2
  /\ (Today - 1) \in EntryDays(entries)
  /\ calculateStreaks(zone, now, entries).currentStreak >= 2
  /\ call = NoCall


(***************************************************************************)
(* C18.  In createJournalEntry a failure of the categorization call never  *)
(* prevents the entry from being saved: the images are still uploaded and  *)
(* the document is still created, without an aiGeneratedCategory           *)
(* reference; the reference is present only when categorization returned   *)
(* a category id.                                                          *)
(***************************************************************************)
HasCategory(doc) == "aiGeneratedCategory" \in DOMAIN doc

ReturnedCategoryId(c) ==
  /\ c.categorization.outcome = "resolved"
  /\ Truthy(c.categorization.categoryId)

C18_CategorizationNeverPrevents ==
  call.fn = "createJournalEntry" =>
    /\ call.pc = "failed" =>
         \/ call.error = "upload" /\ \E i \in DOMAIN call.uploads :
                                       call.uploads[i] = "failed"
         \/ call.error = "create"
    /\ (call.categorization.outcome = "failed" /\ call.pc # "failed") =>
         \A i \in DOMAIN call.uploads : call.uploads[i] # "pending"
    /\ call.pc \in {"create", "done"} =>
         /\ \A i \in DOMAIN call.uploads : call.uploads[i] = "uploaded"
         /\ Len(call.journalEntry.content) = 1 + Len(call.uploads)
         /\ HasCategory(call.journalEntry) <=> ReturnedCategoryId(call)
         /\ HasCategory(call.journalEntry) =>
              call.journalEntry.aiGeneratedCategory._ref =
                call.categorization.categoryId.value
    /\ call.pc = "done" => entries[Len(entries)] = call.journalEntry

\* An entry with images has been saved although its categorization failed.
C18_Witness ==
  /\ call.fn = "createJournalEntry"
  /\ call.pc = "done"
  /\ call.categorization.outcome = "failed"
  /\ Len(call.uploads) >= 1
  /\ ~HasCategory(entries[Len(entries)])

\* An entry has been saved with the category id categorization returned.
C18_WitnessCategorized ==
  /\ call.fn = "createJournalEntry"
  /\ call.pc = "done"
  /\ HasCategory(entries[Len(entries)])

=============================================================================
